---- MODULE Spec2Model ----
(***************************************************************************)
(* Model of the NiftyRent resolver (src/src/index.ts): the constructor,    *)
(* init() with its suspension points, and the three resolution operations  *)
(* is_rented, is_current_user and get_current_user, each split at its      *)
(* awaits.  A Contract object is modelled by its contractId; the remote    *)
(* NFT contracts and rental proxies are a fixed table of view answers.     *)
(***************************************************************************)
EXTENDS Naturals, Sequences, FiniteSets, Bags, TLC

\* The number of resolution calls that may be in progress at the same time.
MaxCalls == 2

\* JavaScript's undefined and null, kept apart from every account id.
Undefined == "<undefined>"
Null == "<null>"

\* JavaScript truthiness of an optional string (lines 69, 141, 144).
Truthy(x) == x # Undefined /\ x # Null /\ x # ""

----------------------------------------------------------------------------
\* Configuration (lines 13-22) and the constructor's defaults (lines 24-58).

defaultRpcNodeUrl(networkId) ==
    IF networkId = "mainnet" THEN "https://rpc.mainnet.near.org"
    ELSE "https://rpc.testnet.near.org"

defaultRentalProxies(networkId) ==
    IF networkId = "mainnet" THEN <<"nft-rental.near">>
    ELSE <<"nft-rental.testnet">>

\* An omitted allowedRentalProxies (an array is always truthy, line 57).
NoList == <<Undefined>>

\* The configurations a resolver is constructed with.
Configs ==
    [ networkId : {Undefined},
      rpcNodeUrl : {Undefined},
      defaultContractAddr : {Undefined, "nft.a"},
      allowedRentalProxies : {NoList, <<"rental.proxy", "nft-rental.testnet">>} ]
    \cup
    [ networkId : {"mainnet"},
      rpcNodeUrl : {Undefined},
      defaultContractAddr : {"nft.b"},
      allowedRentalProxies : {NoList} ]

----------------------------------------------------------------------------
\* The remote contracts.  A view call answers [ok |-> TRUE, val |-> value]
\* or fails with [ok |-> FALSE, val |-> error].

Tokens == {"t1", "t2", "t3", "t4"}
ContractAddrs == {Undefined, "nft.a", "nft.b"}
Users == {"alice", "bob"}

Ok(v) == [ok |-> TRUE, val |-> v]
Fail(e) == [ok |-> FALSE, val |-> e]

\* nft_token({token_id}) on the NFT contract at contractId: the owner_id of
\* the token record.
NftToken(contractId, tokenId) ==
    CASE contractId = "nft.a" /\ tokenId = "t1" -> Ok("alice")
      [] contractId = "nft.a" /\ tokenId = "t2" -> Ok("nft-rental.testnet")
      [] contractId = "nft.a" /\ tokenId = "t3" -> Ok("length")
      [] contractId = "nft.a" /\ tokenId = "t4" -> Ok("nft-rental.testnet")
      [] contractId = "nft.b" /\ tokenId = "t1" -> Ok("rental.proxy")
      [] contractId = "nft.b" /\ tokenId = "t2" -> Ok("0")
      [] contractId = "nft.b" /\ tokenId = "t3" -> Fail("rpc: nft_token failed")
      [] contractId = "nft.b" /\ tokenId = "t4" -> Ok("nft-rental")
      [] OTHER -> Fail("rpc: no such contract")

\* get_borrower_by_contract_and_token({contract_id, token_id}) on the rental
\* proxy at proxyId: the borrower, or null when there is no active lease.
GetBorrower(proxyId, contract_id, token_id) ==
    CASE proxyId = "nft-rental.testnet" /\ contract_id = "nft.a" /\ token_id = "t2" -> Ok("bob")
      [] proxyId = "nft-rental.testnet" /\ contract_id = "nft.b" /\ token_id = "t2" -> Ok("carol")
      [] proxyId = "nft-rental.testnet" /\ contract_id = "nft.a" /\ token_id = "t1" -> Ok("dave")
      [] proxyId = "rental.proxy" /\ contract_id = "nft.b" /\ token_id = "t1" ->
             Fail("rpc: get_borrower failed")
      [] proxyId = "rental.proxy" /\ contract_id = "nft.a" /\ token_id = "t1" -> Ok("erin")
      [] OTHER -> Ok(Null)

----------------------------------------------------------------------------
\* JavaScript array operations used by the membership tests.

\* Array.prototype.includes on an array of strings (line 114).
ArrayIncludes(arr, x) == \E i \in 1..Len(arr) : arr[i] = x

Digits == <<"0", "1", "2", "3", "4", "5", "6", "7", "8", "9">>

RECURSIVE NatToString(_)
NatToString(n) ==
    IF n < 10 THEN Digits[n + 1]
    ELSE NatToString(n \div 10) \o Digits[(n % 10) + 1]

\* Property names every array has besides its indices.
ArrayPropertyNames ==
    {"length", "constructor", "includes", "indexOf", "push", "pop", "map",
     "toString", "valueOf", "hasOwnProperty"}

\* The `in` operator with a string key and an array on the right (line 90):
\* true when the key names a property of the array, that is one of its
\* indices 0..length-1 or a property such as length.
InArray(key, arr) ==
    \/ \E i \in 1..Len(arr) : key = NatToString(i - 1)
    \/ key \in ArrayPropertyNames

----------------------------------------------------------------------------
VARIABLES
    networkId, rpcNodeUrl, defaultContractAddr, allowedRentalProxies,
    nearApi, defaultNftContract, rentalContracts,
    initPc, initIdx, calls

resolver == <<networkId, rpcNodeUrl, defaultContractAddr, allowedRentalProxies,
              nearApi, defaultNftContract, rentalContracts>>
vars == <<networkId, rpcNodeUrl, defaultContractAddr, allowedRentalProxies,
          nearApi, defaultNftContract, rentalContracts, initPc, initIdx, calls>>

\* Errors thrown by the resolver itself (lines 117, 129, 144).
ErrCallInit == "Please call init() first"
ErrNoContract == "Please provide contractAddr or set the defaultContractAddr in the config"
ErrNoRental == "rental contract not initialised"
ConfigurationErrors == {ErrCallInit, ErrNoContract, ErrNoRental}

\* Map.get / Map.set on rentalContracts (lines 75, 115).
MapGet(m, k) == IF k \in DOMAIN m THEN m[k] ELSE Undefined
MapSet(m, k, v) == [x \in (DOMAIN m) \cup {k} |-> IF x = k THEN v ELSE m[x]]
EmptyMap == [x \in {} |-> x]

\* new NiftyRent(config) (lines 53-58); the object before init().
Init ==
    \E config \in Configs :
        /\ networkId = (IF Truthy(config.networkId) THEN config.networkId ELSE "testnet")
        /\ rpcNodeUrl = (IF Truthy(config.rpcNodeUrl) THEN config.rpcNodeUrl
                         ELSE defaultRpcNodeUrl(IF Truthy(config.networkId)
                                                THEN config.networkId ELSE "testnet"))
        /\ defaultContractAddr = config.defaultContractAddr
        /\ allowedRentalProxies =
               (IF config.allowedRentalProxies # NoList THEN config.allowedRentalProxies
                ELSE defaultRentalProxies(IF Truthy(config.networkId)
                                          THEN config.networkId ELSE "testnet"))
        /\ nearApi = Undefined
        /\ defaultNftContract = Undefined
        /\ rentalContracts = EmptyMap
        /\ initPc = "new"
        /\ initIdx = 1
        /\ calls = EmptyBag

----------------------------------------------------------------------------
\* A resolution call: its arguments, the await it is suspended at (pc), the
\* nftContract local, the remote queries it has issued so far, and how its
\* promise settled.  phase records where init() stood when the call was made.

Pending == [kind |-> "pending", s |-> "", b |-> FALSE]
Value(v) == [kind |-> "value", s |-> v, b |-> FALSE]
Bool(v) == [kind |-> "bool", s |-> "", b |-> v]
Thrown(e) == [kind |-> "throw", s |-> e, b |-> FALSE]

Phase == IF initPc = "new" THEN "before" ELSE IF initPc = "done" THEN "after" ELSE "during"

NewCall(op, user, tokenId, contractAddr) ==
    [ op |-> op, user |-> user, tokenId |-> tokenId, contractAddr |-> contractAddr,
      pc |-> "start", nftContract |-> Undefined, queries |-> <<>>,
      result |-> Pending, phase |-> Phase ]

\* A settled promise is taken by its caller's continuation before anything
\* else runs; a settled call takes no further part in the resolver.
NoneSettled == \A c \in BagToSet(calls) : c.pc # "done"

----------------------------------------------------------------------------
\* init() (lines 63-81), one action per suspension point.

\* Where init() continues once the default binding is settled: the loop over
\* allowedRentalProxies (line 73), or the return (line 80) when it is empty.
InitLoopEntry == IF Len(allowedRentalProxies) = 0 THEN "done" ELSE "proxy"

\* init() is called and suspends in connect() (line 64).
InitCall ==
    /\ initPc = "new"
    /\ NoneSettled
    /\ initPc' = "connect"
    /\ UNCHANGED <<resolver, initIdx, calls>>

\* connect() resolves: nearApi is set (line 64); with a default address the
\* call of internalInitNftContract suspends in account("") (lines 69-70, 133).
InitConnected ==
    /\ initPc = "connect"
    /\ NoneSettled
    /\ nearApi' = "near"
    /\ initPc' = IF Truthy(defaultContractAddr) THEN "default" ELSE InitLoopEntry
    /\ UNCHANGED <<networkId, rpcNodeUrl, defaultContractAddr, allowedRentalProxies,
                   defaultNftContract, rentalContracts, initIdx, calls>>

\* The default NFT contract binding is built and stored (line 70).
InitDefaultBound ==
    /\ initPc = "default"
    /\ NoneSettled
    /\ defaultNftContract' = defaultContractAddr
    /\ initPc' = InitLoopEntry
    /\ UNCHANGED <<networkId, rpcNodeUrl, defaultContractAddr, allowedRentalProxies,
                   nearApi, rentalContracts, initIdx, calls>>

\* One pass of the loop: account("") resolves and the binding of the proxy
\* at initIdx is stored (lines 73-79); after the last one init() returns.
InitProxyBound ==
    /\ initPc = "proxy"
    /\ NoneSettled
    /\ rentalContracts' = MapSet(rentalContracts, allowedRentalProxies[initIdx],
                                 allowedRentalProxies[initIdx])
    /\ initIdx' = initIdx + 1
    /\ initPc' = IF initIdx = Len(allowedRentalProxies) THEN "done" ELSE "proxy"
    /\ UNCHANGED <<networkId, rpcNodeUrl, defaultContractAddr, allowedRentalProxies,
                   nearApi, defaultNftContract, calls>>

----------------------------------------------------------------------------
\* The steps of a resolution call, as functions of the call and of the
\* resolver's fields at the moment of the step.

\* Variant of IsCurrentUserOf that turns a rejection into false.
IsCurrentUserSwallow(outcome, user) ==
    Bool(outcome.kind = "value" /\ outcome.s = user)

\* is_current_user (lines 100-102) applied to the outcome of the
\* get_current_user call it awaits: a rejection passes through, a value is
\* compared with user by ===.
IsCurrentUserOf(outcome, user) ==
    IF outcome.kind = "throw" THEN outcome ELSE Bool(outcome.s = user)

\* The promise of the call settles with the outcome of get_current_user, seen
\* through is_current_user when that is the operation called.
Settle(c, outcome) ==
    [c EXCEPT !.pc = "done",
              !.result = IF c.op = "is_current_user"
                         THEN IsCurrentUserOf(outcome, c.user) ELSE outcome]

\* nftContract.nft_token({token_id: tokenId}) is issued (lines 87-89, 111-113).
IssueTokenFetch(c) ==
    [c EXCEPT !.pc = "token",
              !.queries = Append(@, [method |-> "nft_token", to |-> c.nftContract,
                                     contract_id |-> Undefined, token_id |-> c.tokenId])]

\* The guard of internalInitNftContract (lines 128-130).
NotConnected == ~Truthy(nearApi)

\* Variant of ResolveStart without the guard of lines 128-130.
ResolveStartUnguarded(c) ==
    IF Truthy(c.contractAddr)
    THEN IssueTokenFetch([c EXCEPT !.nftContract = c.contractAddr])
    ELSE IF ~Truthy(defaultNftContract) THEN Settle(c, Thrown(ErrNoContract))
         ELSE IssueTokenFetch([c EXCEPT !.nftContract = defaultNftContract])

\* The call up to its first remote query: internalResolveNftContract (lines
\* 139-146) takes defaultNftContract or, with a contractAddr, a binding that
\* internalInitNftContract builds for this call (lines 127-137), which throws
\* before init() has connected; with no binding at all it throws (line 144);
\* otherwise the token fetch is issued.  account("") (line 133) builds a
\* local object and touches no field of the resolver.
ResolveStart(c) ==
    IF Truthy(c.contractAddr)
    THEN IF NotConnected THEN Settle(c, Thrown(ErrCallInit))
         ELSE IssueTokenFetch([c EXCEPT !.nftContract = c.contractAddr])
    ELSE IF ~Truthy(defaultNftContract) THEN Settle(c, Thrown(ErrNoContract))
         ELSE IssueTokenFetch([c EXCEPT !.nftContract = defaultNftContract])

\* Variant of IssueBorrowerFetch passing the contractAddr argument as
\* contract_id instead of nftContract.contractId.
IssueBorrowerFetchByAddr(c, rentalContract) ==
    [c EXCEPT !.pc = "borrower",
              !.queries = Append(@, [method |-> "get_borrower_by_contract_and_token",
                                     to |-> rentalContract,
                                     contract_id |-> c.contractAddr,
                                     token_id |-> c.tokenId])]

\* rentalContract.get_borrower_by_contract_and_token(...) is issued (lines
\* 119-122) on the binding rentalContract.
IssueBorrowerFetch(c, rentalContract) ==
    [c EXCEPT !.pc = "borrower",
              !.queries = Append(@, [method |-> "get_borrower_by_contract_and_token",
                                     to |-> rentalContract,
                                     contract_id |-> c.nftContract,
                                     token_id |-> c.tokenId])]

\* The answer of the remote contract to a query.
Answer(q) ==
    IF q.method = "nft_token" THEN NftToken(q.to, q.token_id)
    ELSE GetBorrower(q.to, q.contract_id, q.token_id)

\* is_rented after the token record arrived (line 90).
IsRentedOf(owner_id) == Bool(InArray(owner_id, allowedRentalProxies))

\* Variant of IsTrusted using the `in` test of line 90.
IsTrustedByIn(owner_id) == InArray(owner_id, allowedRentalProxies)

\* The trust test of get_current_user (line 114).
IsTrusted(owner_id) == ArrayIncludes(allowedRentalProxies, owner_id)

\* get_current_user after the token record arrived (lines 114-122).
AfterTokenGcu(c, owner_id) ==
    IF ~IsTrusted(owner_id) THEN Settle(c, Value(owner_id))
    ELSE IF ~Truthy(MapGet(rentalContracts, owner_id))
         THEN Settle(c, Thrown(ErrNoRental))
         ELSE IssueBorrowerFetch(c, MapGet(rentalContracts, owner_id))

\* Variant of AfterToken in which is_rented goes on to the rental proxy too.
AfterTokenChase(c) ==
    LET r == Answer(c.queries[Len(c.queries)]) IN
    IF ~r.ok THEN Settle(c, Thrown(r.val))
    ELSE AfterTokenGcu(c, r.val)

\* The token fetch settles (lines 87-90, 111-114): a failure rejects the
\* call, a record continues with its owner_id.
AfterToken(c) ==
    LET r == Answer(c.queries[Len(c.queries)]) IN
    IF ~r.ok THEN Settle(c, Thrown(r.val))
    ELSE IF c.op = "is_rented" THEN Settle(c, IsRentedOf(r.val))
    ELSE AfterTokenGcu(c, r.val)

\* Variant of AfterBorrower that answers the nominal owner when the
\* borrower fetch fails.
AfterBorrowerFallback(c) ==
    LET r == Answer(c.queries[Len(c.queries)]) IN
    IF ~r.ok THEN Settle(c, Value(c.queries[Len(c.queries)].to))
    ELSE Settle(c, Value(r.val))

\* The borrower fetch settles (lines 119-123): a failure rejects the call,
\* an answer is returned as it is.
AfterBorrower(c) ==
    LET r == Answer(c.queries[Len(c.queries)]) IN
    IF ~r.ok THEN Settle(c, Thrown(r.val))
    ELSE Settle(c, Value(r.val))

----------------------------------------------------------------------------
\* The resolution operations as actions.

Replace(c, d) == (calls (-) SetToBag({c})) (+) SetToBag({d})

\* Variant of Begin that keeps the binding built for contractAddr as
\* defaultNftContract.
BeginMemo(c) ==
    /\ BagCardinality(calls) < MaxCalls
    /\ NoneSettled
    /\ calls' = calls (+) SetToBag({ResolveStart(c)})
    /\ defaultNftContract' = IF Truthy(c.contractAddr) /\ ~NotConnected
                              THEN c.contractAddr ELSE defaultNftContract
    /\ UNCHANGED <<networkId, rpcNodeUrl, defaultContractAddr, allowedRentalProxies,
                   nearApi, rentalContracts, initPc, initIdx>>

\* A call is made: it runs to its first remote query (or rejection).
Begin(c) ==
    /\ BagCardinality(calls) < MaxCalls
    /\ NoneSettled
    /\ calls' = calls (+) SetToBag({ResolveStart(c)})
    /\ UNCHANGED <<resolver, initPc, initIdx>>

is_rented ==
    \E tokenId \in Tokens, contractAddr \in ContractAddrs :
        Begin(NewCall("is_rented", Undefined, tokenId, contractAddr))

is_current_user ==
    \E user \in Users, tokenId \in Tokens, contractAddr \in ContractAddrs :
        Begin(NewCall("is_current_user", user, tokenId, contractAddr))

get_current_user ==
    \E tokenId \in Tokens, contractAddr \in ContractAddrs :
        Begin(NewCall("get_current_user", Undefined, tokenId, contractAddr))

\* The token fetch of a call settles.
TokenAnswered(c) ==
    /\ c.pc = "token"
    /\ NoneSettled
    /\ calls' = Replace(c, AfterToken(c))
    /\ UNCHANGED <<resolver, initPc, initIdx>>

\* The borrower fetch of a call settles.
BorrowerAnswered(c) ==
    /\ c.pc = "borrower"
    /\ NoneSettled
    /\ calls' = Replace(c, AfterBorrower(c))
    /\ UNCHANGED <<resolver, initPc, initIdx>>

\* The caller takes the settled promise of a call.
Taken(c) ==
    /\ c.pc = "done"
    /\ calls' = calls (-) SetToBag({c})
    /\ UNCHANGED <<resolver, initPc, initIdx>>

Next ==
    \/ InitCall
    \/ InitConnected
    \/ InitDefaultBound
    \/ InitProxyBound
    \/ is_rented
    \/ is_current_user
    \/ get_current_user
    \/ \E c \in BagToSet(calls) : TokenAnswered(c)
    \/ \E c \in BagToSet(calls) : BorrowerAnswered(c)
    \/ \E c \in BagToSet(calls) : Taken(c)

Spec == Init /\ [][Next]_vars

----------------------------------------------------------------------------
\* Vocabulary of the properties.

Range(seq) == {seq[i] : i \in 1..Len(seq)}
AllCalls == BagToSet(calls)

\* The address of the NFT contract a call resolves to, and whether there is one.
ResolvedAddr(c) == IF Truthy(c.contractAddr) THEN c.contractAddr ELSE defaultContractAddr
Resolvable(c) == Truthy(ResolvedAddr(c))

\* What the chain holds for the token of a call: the NFT contract's answer to
\* the token fetch, and the answer of the proxy proxyId to the borrower fetch.
OwnerAnswer(c) == NftToken(ResolvedAddr(c), c.tokenId)
BorrowerAnswer(c, proxyId) == GetBorrower(proxyId, ResolvedAddr(c), c.tokenId)

Initialised(c) == c.phase = "after"
OwnedByProxy(c) == OwnerAnswer(c).ok /\ OwnerAnswer(c).val \in Range(allowedRentalProxies)
OwnedByOther(c) == OwnerAnswer(c).ok /\ OwnerAnswer(c).val \notin Range(allowedRentalProxies)
IsBorrowerFetch(q) == q.method = "get_borrower_by_contract_and_token"
IsTokenFetch(q) == q.method = "nft_token"
FailedOnConfiguration(c) ==
    c.pc = "done" /\ c.result.kind = "throw" /\ c.result.s \in ConfigurationErrors

\* The same operation run from call to settlement with nothing in between,
\* on the resolver as it stands.
RunAlone(op, user, tokenId, contractAddr) ==
    LET a == ResolveStart(NewCall(op, user, tokenId, contractAddr))
        b == IF a.pc = "token" THEN AfterToken(a) ELSE a
        d == IF b.pc = "borrower" THEN AfterBorrower(b) ELSE b
    IN  d.result

----------------------------------------------------------------------------
\* C1: on an initialised resolver, get_current_user of a token whose owner_id
\* is not in allowedRentalProxies returns exactly that owner_id and never
\* issues a borrower fetch to any rental proxy.
C1_OwnerReturnedWhenNotProxy ==
    \A c \in AllCalls :
        (c.op = "get_current_user" /\ Initialised(c) /\ Resolvable(c) /\ OwnedByOther(c))
        => /\ c.pc # "borrower"
           /\ \A i \in 1..Len(c.queries) : ~IsBorrowerFetch(c.queries[i])
           /\ c.pc = "done" => c.result = Value(OwnerAnswer(c).val)

C1_Witness ==
    \E c \in AllCalls :
        /\ c.op = "get_current_user" /\ Initialised(c) /\ OwnedByOther(c)
        /\ c.pc = "done" /\ c.result = Value("length")

\* C2: on an initialised resolver, get_current_user of a token whose owner_id
\* is in allowedRentalProxies asks that proxy for the borrower with contract_id
\* the address of the resolved NFT contract and token_id the queried token,
\* and returns the proxy's answer as it is, null included.
C2_BorrowerReturnedVerbatim ==
    \A c \in AllCalls :
        (c.op = "get_current_user" /\ Initialised(c) /\ Resolvable(c) /\ OwnedByProxy(c))
        => /\ c.pc \in {"borrower", "done"} =>
                  /\ Len(c.queries) = 2
                  /\ c.queries[2] = [method |-> "get_borrower_by_contract_and_token",
                                     to |-> OwnerAnswer(c).val,
                                     contract_id |-> ResolvedAddr(c),
                                     token_id |-> c.tokenId]
           /\ (c.pc = "done" /\ BorrowerAnswer(c, OwnerAnswer(c).val).ok) =>
                  c.result = Value(BorrowerAnswer(c, OwnerAnswer(c).val).val)

C2_Witness ==
    \E c \in AllCalls :
        /\ c.op = "get_current_user" /\ Initialised(c) /\ OwnedByProxy(c)
        /\ ~Truthy(c.contractAddr)
        /\ c.pc = "done" /\ c.result = Value("bob")

C2_WitnessNoBorrower ==
    \E c \in AllCalls :
        /\ c.op = "get_current_user" /\ Initialised(c) /\ OwnedByProxy(c)
        /\ c.pc = "done" /\ c.result = Value(Null)

\* C3: on an initialised resolver, is_rented of a token whose owner_id is in
\* allowedRentalProxies returns true.
C3_IsRentedTrueForProxyOwner ==
    \A c \in AllCalls :
        (c.op = "is_rented" /\ Initialised(c) /\ Resolvable(c) /\ OwnedByProxy(c)
            /\ c.pc = "done")
        => c.result = Bool(TRUE)

\* C4: on an initialised resolver, is_rented of a token whose owner_id equals
\* no element of allowedRentalProxies returns false, whatever the owner string.
C4_IsRentedFalseForOtherOwner ==
    \A c \in AllCalls :
        (c.op = "is_rented" /\ Initialised(c) /\ Resolvable(c) /\ OwnedByOther(c)
            /\ c.pc = "done")
        => c.result = Bool(FALSE)

\* C5: is_current_user(user, token, contractAddr) returns true exactly when
\* get_current_user(token, contractAddr) returns a value equal to user, false
\* when it returns any other value, and fails with the same error when
\* get_current_user fails.
C5_IsCurrentUserAgreesWithGetCurrentUser ==
    \A c \in AllCalls :
        (c.op = "is_current_user" /\ c.pc = "done")
        => LET g == RunAlone("get_current_user", Undefined, c.tokenId, c.contractAddr)
           IN  /\ g.kind = "throw" => c.result = g
               /\ g.kind = "value" => c.result = Bool(g.s = c.user)
               /\ g.kind \in {"throw", "value"}

C5_Witness ==
    \E c \in AllCalls :
        /\ c.op = "is_current_user" /\ c.pc = "done" /\ Len(c.queries) = 2
        /\ c.user = "bob" /\ c.result = Bool(TRUE)

C5_WitnessFails ==
    \E c \in AllCalls :
        /\ c.op = "is_current_user" /\ c.pc = "done" /\ c.result.kind = "throw"

\* C6: a resolution call made before init() is called, or made on an
\* initialised resolver with neither a contractAddr nor a default address,
\* fails with a configuration error and issues no remote query.
C6_ConfigurationErrorWithoutQuery ==
    \A c \in AllCalls :
        (\/ c.phase = "before"
         \/ Initialised(c) /\ ~Resolvable(c))
        => /\ FailedOnConfiguration(c)
           /\ c.queries = <<>>

C6_Witness ==
    \E c \in AllCalls :
        /\ c.phase = "before" /\ Truthy(c.contractAddr)
        /\ c.result = Thrown(ErrCallInit) /\ c.queries = <<>>

C6_WitnessNoAddress ==
    \E c \in AllCalls :
        /\ Initialised(c) /\ ~Resolvable(c)
        /\ c.result = Thrown(ErrNoContract) /\ c.queries = <<>>

\* C7: a resolution call that starts while init() is in progress fails with a
\* configuration error.
C7_FailsWhileInitInProgress ==
    \A c \in AllCalls :
        (c.phase = "during" /\ c.pc = "done") => FailedOnConfiguration(c)

\* C8: when the token fetch or the borrower fetch fails the call fails with
\* that error; the failed query is not issued again and no value stands in
\* for the failed answer.
C8_RemoteFailurePropagates ==
    \A c \in AllCalls :
        LET n == Len(c.queries) IN
        /\ n <= 2
        /\ n = 2 => /\ Answer(c.queries[1]).ok
                    /\ c.queries[2] # c.queries[1]
        /\ (n >= 1 /\ c.pc = "token") => n = 1
        /\ (n >= 1 /\ c.pc = "done" /\ ~Answer(c.queries[n]).ok)
               => c.result = Thrown(Answer(c.queries[n]).val)

C8_Witness ==
    \E c \in AllCalls :
        /\ c.pc = "done" /\ Len(c.queries) = 2
        /\ ~Answer(c.queries[2]).ok
        /\ c.result = Thrown("rpc: get_borrower failed")

C8_WitnessTokenFetch ==
    \E c \in AllCalls :
        /\ c.pc = "done" /\ Len(c.queries) = 1
        /\ c.result = Thrown("rpc: nft_token failed")

\* The rental path of a call: get_current_user (alone or under
\* is_current_user) of a token whose owner is a trusted proxy.
OnRentalPath(c) == c.op # "is_rented" /\ Resolvable(c) /\ OwnedByProxy(c)

\* C9, as stated, for the calls made before init() is called or after it has
\* returned: every resolution call issues exactly one token fetch, and a
\* borrower fetch exactly on the rental path: a settled get_current_user or
\* is_current_user call has made two queries on the rental path and one
\* otherwise, and a settled is_rented call always exactly one.
C9_AlwaysOneTokenFetch ==
    \A c \in AllCalls :
        (c.pc = "done" /\ (Initialised(c) \/ c.phase = "before"))
        => Len(c.queries) = IF OnRentalPath(c) THEN 2 ELSE 1

\* C9, amended: the remote queries of one call form a chain: first one token
\* fetch; then at most one borrower fetch, issued only after the token fetch
\* succeeded with an owner that is a trusted proxy, and never by is_rented.
\* A call that does not fail with a configuration error makes two queries on
\* the rental path of get_current_user and is_current_user and one otherwise;
\* a call that fails with a configuration error makes none, or only the token
\* fetch when it is the rental binding that is missing.
C9_QueriesFormAChain ==
    \A c \in AllCalls :
        LET n == Len(c.queries) IN
        /\ n <= 2
        /\ n >= 1 => IsTokenFetch(c.queries[1])
        /\ n = 2 => /\ IsBorrowerFetch(c.queries[2])
                    /\ c.op # "is_rented"
                    /\ Answer(c.queries[1]).ok
                    /\ Answer(c.queries[1]).val \in Range(allowedRentalProxies)
        /\ c.pc = "token" => n = 1
        /\ c.pc = "borrower" => n = 2
        /\ (c.pc = "done" /\ ~FailedOnConfiguration(c)) =>
               n = IF /\ c.op # "is_rented"
                      /\ Answer(c.queries[1]).ok
                      /\ Answer(c.queries[1]).val \in Range(allowedRentalProxies)
                   THEN 2 ELSE 1
        /\ FailedOnConfiguration(c) =>
               n = IF c.result.s = ErrNoRental THEN 1 ELSE 0

C9_Witness ==
    \E c \in AllCalls :
        /\ c.op = "is_current_user" /\ c.pc = "done" /\ Len(c.queries) = 2
        /\ c.result.kind = "bool" /\ Initialised(c)

\* A call made on an initialised resolver has settled as the same call run
\* alone does.
SettlesAsAlone ==
    \A c \in AllCalls :
        (Initialised(c) /\ c.pc = "done")
        => c.result = RunAlone(c.op, c.user, c.tokenId, c.contractAddr)

\* C10: no step of a resolution call changes a field of the resolver
\* (nearApi, defaultNftContract, allowedRentalProxies, rentalContracts and the
\* configuration), and a call made on an initialised resolver settles,
\* whatever other calls run beside it, as the same call run alone does.
C10_ResolverUnchangedByCalls ==
    [](SettlesAsAlone) /\ [][calls' # calls => UNCHANGED resolver]_vars

C10_Witness ==
    \E c \in AllCalls, d \in AllCalls :
        /\ Initialised(c) /\ c.pc = "done" /\ ~Truthy(c.contractAddr)
        /\ c.result.kind = "value"
        /\ Initialised(d) /\ d.pc # "done" /\ d.contractAddr = "nft.b"
        /\ defaultNftContract = "nft.a"

====
